---- MODULE Spec2Model ----
(***************************************************************************)
(* Deadline resolution and action-item post-processing of                  *)
(* AI_PROGRAM_MANAGER_ENV/utils.py.                                        *)
(*                                                                         *)
(* Python strings are sequences of one-character strings, so that          *)
(* lower(), strip(), the two regular expressions and isoformat() are       *)
(* computed character by character.  A datetime is a record                *)
(* [year, month, day, hour]; date arithmetic goes through proleptic        *)
(* Gregorian ordinals exactly as the datetime module does.                 *)
(***************************************************************************)
EXTENDS Integers, Sequences, FiniteSets, TLC

VARIABLES deadline_text, base_date, outcome, pc, result, idx, original

vars == <<deadline_text, base_date, outcome, pc, result, idx, original>>

(***************************************************************************)
(* Python values and call outcomes                                         *)
(***************************************************************************)

\* Python's None.
None == [t |-> "NoneType", s |-> <<>>]

\* A Python str holding the characters of s.
Str(s) == [t |-> "str", s |-> s]

\* A call that finished with `return v`.
Return(v) == [kind |-> "return", exc |-> "", value |-> v]

\* A call that ended in a raised exception of class e.
Raise(e) == [kind |-> "raise", exc |-> e, value |-> None]

\* No call has finished yet.
NoOutcome == [kind |-> "none", exc |-> "", value |-> None]

(***************************************************************************)
(* Characters and strings                                                  *)
(***************************************************************************)

\* str.lower() on one character (ASCII letters).
LowerChar(c) ==
  CASE c = "A" -> "a" [] c = "B" -> "b" [] c = "C" -> "c" [] c = "D" -> "d"
    [] c = "E" -> "e" [] c = "F" -> "f" [] c = "G" -> "g" [] c = "H" -> "h"
    [] c = "I" -> "i" [] c = "J" -> "j" [] c = "K" -> "k" [] c = "L" -> "l"
    [] c = "M" -> "m" [] c = "N" -> "n" [] c = "O" -> "o" [] c = "P" -> "p"
    [] c = "Q" -> "q" [] c = "R" -> "r" [] c = "S" -> "s" [] c = "T" -> "t"
    [] c = "U" -> "u" [] c = "V" -> "v" [] c = "W" -> "w" [] c = "X" -> "x"
    [] c = "Y" -> "y" [] c = "Z" -> "z" [] OTHER -> c

\* str.lower(): every character lowered, length kept.
Lower(s) == [i \in 1..Len(s) |-> LowerChar(s[i])]

\* The characters str.strip() removes and the regex class \s matches.
IsSpace(c) == c \in {" ", "\t", "\n", "\r"}

\* The regex class \d.
IsDigit(c) == c \in {"0", "1", "2", "3", "4", "5", "6", "7", "8", "9"}

\* str.strip(): the string without its leading and trailing whitespace.
Strip(s) ==
  LET keep == {i \in 1..Len(s) : ~IsSpace(s[i])}
  IN  IF keep = {} THEN <<>>
      ELSE LET lo == CHOOSE i \in keep : \A j \in keep : i <= j
               hi == CHOOSE i \in keep : \A j \in keep : j <= i
           IN  SubSeq(s, lo, hi)

\* Whether the literal lit occurs in text starting at index i.
StartsAt(text, i, lit) ==
  /\ i >= 1
  /\ i + Len(lit) - 1 <= Len(text)
  /\ SubSeq(text, i, i + Len(lit) - 1) = lit

\* Python's `lit in text` on strings.
Contains(text, lit) == \E i \in 1..(Len(text) + 1) : StartsAt(text, i, lit)

\* Index just past the longest run of whitespace starting at i (a greedy \s*).
RECURSIVE SkipSpace(_, _)
SkipSpace(text, i) ==
  IF i <= Len(text) /\ IsSpace(text[i]) THEN SkipSpace(text, i + 1) ELSE i

\* Index just past the longest run of digits starting at i (a greedy \d*).
RECURSIVE SkipDigits(_, _)
SkipDigits(text, i) ==
  IF i <= Len(text) /\ IsDigit(text[i]) THEN SkipDigits(text, i + 1) ELSE i

\* The value of one decimal digit.
DigitValue(c) ==
  CASE c = "0" -> 0 [] c = "1" -> 1 [] c = "2" -> 2 [] c = "3" -> 3
    [] c = "4" -> 4 [] c = "5" -> 5 [] c = "6" -> 6 [] c = "7" -> 7
    [] c = "8" -> 8 [] c = "9" -> 9

\* int(s) for a string of decimal digits; int("") raises ValueError.
RECURSIVE DigitsValue(_)
DigitsValue(s) ==
  IF Len(s) = 0 THEN 0
  ELSE 10 * DigitsValue(SubSeq(s, 1, Len(s) - 1)) + DigitValue(s[Len(s)])

\* The decimal digit for 0..9.
DigitChar(n) == <<"0", "1", "2", "3", "4", "5", "6", "7", "8", "9">>[n + 1]

\* "%04d" % n for 0 <= n <= 9999.
Pad4(n) ==
  <<DigitChar(n \div 1000), DigitChar((n \div 100) % 10),
    DigitChar((n \div 10) % 10), DigitChar(n % 10)>>

\* "%02d" % n for 0 <= n <= 99.
Pad2(n) == <<DigitChar(n \div 10), DigitChar(n % 10)>>

(***************************************************************************)
(* The datetime module: proleptic Gregorian ordinals, weekday, isoformat   *)
(***************************************************************************)

\* date.max.toordinal(): the ordinal of 9999-12-31.
MAXORDINAL == 3652059

\* The largest magnitude of timedelta(days=...).
MAXDELTADAYS == 999999999

\* Days before the first of each month in a non-leap year.
DAYS_BEFORE_MONTH == <<0, 31, 59, 90, 120, 151, 181, 212, 243, 273, 304, 334>>

\* Days of each month in a non-leap year.
DAYS_IN_MONTH == <<31, 28, 31, 30, 31, 30, 31, 31, 30, 31, 30, 31>>

\* year -> 1 if leap year, else 0.
is_leap(year) == year % 4 = 0 /\ (year % 100 # 0 \/ year % 400 = 0)

\* Number of days before January 1st of year.
days_before_year(year) ==
  LET y == year - 1
  IN  y * 365 + (y \div 4) - (y \div 100) + (y \div 400)

\* Number of days in year preceding the first day of month.
days_before_month(year, month) ==
  DAYS_BEFORE_MONTH[month] + (IF month > 2 /\ is_leap(year) THEN 1 ELSE 0)

\* date.toordinal(): 0001-01-01 is day 1.
toordinal(dt) ==
  days_before_year(dt.year) + days_before_month(dt.year, dt.month) + dt.day

\* date.fromordinal(n) as [year, month, day], by 400/100/4/1-year cycles.
ord2ymd(ordinal) ==
  LET n0   == ordinal - 1
      n400 == n0 \div 146097
      r400 == n0 % 146097
      n100 == r400 \div 36524
      r100 == r400 % 36524
      n4   == r100 \div 1461
      r4   == r100 % 1461
      n1   == r4 \div 365
      n    == r4 % 365
      year == n400 * 400 + 1 + n100 * 100 + n4 * 4 + n1
  IN  IF n1 = 4 \/ n100 = 4
      THEN [year |-> year - 1, month |-> 12, day |-> 31]
      ELSE LET leapyear == n1 = 3 /\ (n4 # 24 \/ n100 = 3)
               leap1    == IF leapyear THEN 1 ELSE 0
               month0   == (n + 50) \div 32
               prec0    == DAYS_BEFORE_MONTH[month0]
                             + (IF month0 > 2 THEN leap1 ELSE 0)
               month    == IF prec0 > n THEN month0 - 1 ELSE month0
               prec     == IF prec0 > n
                           THEN prec0 - (DAYS_IN_MONTH[month]
                                  + (IF month = 2 THEN leap1 ELSE 0))
                           ELSE prec0
           IN  [year |-> year, month |-> month, day |-> n - prec + 1]

\* Mutation of weekday: isoweekday() is called, Monday is 1, Sunday is 7.
weekday_iso(dt) == ((toordinal(dt) + 6) % 7) + 1

\* datetime.weekday(): Monday is 0, Sunday is 6.
weekday(dt) == (toordinal(dt) + 6) % 7

\* date.isoformat(): "YYYY-MM-DD".
isoformat(d) == Pad4(d.year) \o <<"-">> \o Pad2(d.month) \o <<"-">> \o Pad2(d.day)

\* datetime.date(): the calendar date, time of day dropped.
date(dt) == [year |-> dt.year, month |-> dt.month, day |-> dt.day]

\* base_date + timedelta(days=days): the outcome is the new datetime, or
\* OverflowError when the delta or the resulting date is out of range.
add_days(dt, days) ==
  IF days > MAXDELTADAYS THEN Raise("OverflowError")
  ELSE LET n == toordinal(dt) + days
       IN  IF 0 < n /\ n <= MAXORDINAL
           THEN Return(ord2ymd(n) @@ [hour |-> dt.hour])
           ELSE Raise("OverflowError")

(***************************************************************************)
(* String literals of utils.py                                             *)
(***************************************************************************)

\* One space.
SP == <<" ">>

\* "today"
w_today == <<"t", "o", "d", "a", "y">>

\* "tomorrow"
w_tomorrow == <<"t", "o", "m", "o", "r", "r", "o", "w">>

\* "day"
w_day == <<"d", "a", "y">>

\* "after"
w_after == <<"a", "f", "t", "e", "r">>

\* "in"
w_in == <<"i", "n">>

\* "days"
w_days == <<"d", "a", "y", "s">>

\* "end"
w_end == <<"e", "n", "d">>

\* "of"
w_of == <<"o", "f">>

\* "week"
w_week == <<"w", "e", "e", "k">>

\* "weekend"
w_weekend == <<"w", "e", "e", "k", "e", "n", "d">>

\* "this"
w_this == <<"t", "h", "i", "s">>

\* "next"
w_next == <<"n", "e", "x", "t">>

\* "monday"
w_monday == <<"m", "o", "n", "d", "a", "y">>

\* "tuesday"
w_tuesday == <<"t", "u", "e", "s", "d", "a", "y">>

\* "wednesday"
w_wednesday == <<"w", "e", "d", "n", "e", "s", "d", "a", "y">>

\* "thursday"
w_thursday == <<"t", "h", "u", "r", "s", "d", "a", "y">>

\* "friday"
w_friday == <<"f", "r", "i", "d", "a", "y">>

\* "saturday"
w_saturday == <<"s", "a", "t", "u", "r", "d", "a", "y">>

\* "sunday"
w_sunday == <<"s", "u", "n", "d", "a", "y">>

\* Words joined by single spaces.
RECURSIVE Join(_)
Join(ws) == IF Len(ws) = 1 THEN ws[1] ELSE ws[1] \o SP \o Join(Tail(ws))

\* Mutation of WEEKDAYS: the ordinals count from Sunday = 0.
WEEKDAYS_sunday_first ==
  <<[name |-> w_monday, ord |-> 1], [name |-> w_tuesday, ord |-> 2],
    [name |-> w_wednesday, ord |-> 3], [name |-> w_thursday, ord |-> 4],
    [name |-> w_friday, ord |-> 5], [name |-> w_saturday, ord |-> 6],
    [name |-> w_sunday, ord |-> 0]>>

\* WEEKDAYS, as (name, ordinal) pairs in the order of the dict literal.
WEEKDAYS ==
  <<[name |-> w_monday, ord |-> 0], [name |-> w_tuesday, ord |-> 1],
    [name |-> w_wednesday, ord |-> 2], [name |-> w_thursday, ord |-> 3],
    [name |-> w_friday, ord |-> 4], [name |-> w_saturday, ord |-> 5],
    [name |-> w_sunday, ord |-> 6]>>

\* WEEKDAYS[name]: a missing key raises KeyError (never the case below).
WEEKDAYS_get(name) ==
  LET hit == {k \in 1..Len(WEEKDAYS) : WEEKDAYS[k].name = name}
  IN  WEEKDAYS[CHOOSE k \in hit : TRUE].ord

\* The alternation (monday|tuesday|...|sunday) of the weekday regex, in order.
WeekdayAlternation ==
  <<w_monday, w_tuesday, w_wednesday, w_thursday, w_friday, w_saturday, w_sunday>>

\* ["end of week", "week end", "weekend"]
END_OF_WEEK_PHRASES ==
  {Join(<<w_end, w_of, w_week>>), Join(<<w_week, w_end>>), w_weekend}

(***************************************************************************)
(* The two regular expressions                                             *)
(***************************************************************************)

\* A failed re.search.
NoMatch == [found |-> FALSE, group1 |-> None, group2 |-> None]

\* Mutation of in_days_match_at: the number is written (\d*), so an empty
\* run of digits between two or more whitespace characters is accepted.
in_days_match_at_star(text, i) ==
  LET a == i + 2
      b == SkipSpace(text, a)
      c == SkipDigits(text, b)
      d == SkipSpace(text, c)
  IN  IF /\ StartsAt(text, i, w_in)
         /\ b > a
         /\ \/ c > b /\ d > c /\ StartsAt(text, d, w_days)
            \/ c = b /\ b > a + 1 /\ StartsAt(text, b, w_days)
      THEN [found |-> TRUE, group1 |-> Str(SubSeq(text, b, c - 1)), group2 |-> None]
      ELSE [found |-> FALSE, group1 |-> None, group2 |-> None]

\* in\s+(\d+)\s+days anchored at index i.  \s and \d are disjoint classes and
\* neither contains "d", so the greedy runs never need to give a character
\* back: the match exists iff each maximal run is non-empty.
in_days_match_at(text, i) ==
  LET a == i + 2
      b == SkipSpace(text, a)
      c == SkipDigits(text, b)
      d == SkipSpace(text, c)
  IN  IF StartsAt(text, i, w_in) /\ b > a /\ c > b /\ d > c /\ StartsAt(text, d, w_days)
      THEN [found |-> TRUE, group1 |-> Str(SubSeq(text, b, c - 1)), group2 |-> None]
      ELSE NoMatch

\* re.search(r"in\s+(\d+)\s+days", text): the leftmost match.
in_days_search(text) ==
  LET hits == {i \in 1..Len(text) : in_days_match_at(text, i).found}
  IN  IF hits = {} THEN NoMatch
      ELSE in_days_match_at(text, CHOOSE i \in hits : \A j \in hits : i <= j)

\* (monday|...|sunday) anchored at index i: the first alternative that fits.
weekday_name_at(text, i) ==
  LET fits == {k \in 1..Len(WeekdayAlternation) : StartsAt(text, i, WeekdayAlternation[k])}
  IN  IF fits = {} THEN None
      ELSE Str(WeekdayAlternation[CHOOSE k \in fits : \A j \in fits : k <= j])

\* (this\s+|next\s+)?(monday|...) anchored at index i: the optional group is
\* tried first ("this", then "next"), then the match without it.
weekday_match_at(text, i) ==
  LET lead  == IF StartsAt(text, i, w_this) THEN w_this
               ELSE IF StartsAt(text, i, w_next) THEN w_next ELSE <<>>
      a     == i + Len(lead)
      b     == SkipSpace(text, a)
      after == weekday_name_at(text, b)
      here  == weekday_name_at(text, i)
  IN  IF lead # <<>> /\ b > a /\ after # None
      THEN [found |-> TRUE, group1 |-> Str(SubSeq(text, i, b - 1)), group2 |-> after]
      ELSE IF here # None
      THEN [found |-> TRUE, group1 |-> None, group2 |-> here]
      ELSE NoMatch

\* re.search(r"(this\s+|next\s+)?(monday|...|sunday)", text): the leftmost match.
weekday_search(text) ==
  LET hits == {i \in 1..Len(text) : weekday_match_at(text, i).found}
  IN  IF hits = {} THEN NoMatch
      ELSE weekday_match_at(text, CHOOSE i \in hits : \A j \in hits : i <= j)

(***************************************************************************)
(* resolve_deadline_text                                                   *)
(***************************************************************************)

\* Python truthiness of the argument: None and "" are falsy (`not deadline_text`).
truthy(v) == v # None /\ v.s # <<>>

\* Mutation of normalise: .lower() is left out.
normalise_without_lower(text_arg) == Strip(text_arg.s)

\* deadline_text.lower().strip()
normalise(text_arg) == Strip(Lower(text_arg.s))

\* int(match.group(1))
py_int(digits) ==
  IF digits = <<>> THEN Raise("ValueError") ELSE Return(DigitsValue(digits))

\* Mutation of plus_days_iso: .date() is left out, so the datetime itself is
\* formatted ("YYYY-MM-DDTHH:00:00").
plus_days_iso_keeps_time(dt, days) ==
  LET sum == add_days(dt, days)
  IN  IF sum.kind = "raise" THEN sum
      ELSE Return(Str(isoformat(date(sum.value)) \o <<"T">> \o Pad2(sum.value.hour)
                        \o <<":", "0", "0", ":", "0", "0">>))

\* (base_date + timedelta(days=days)).date().isoformat()
plus_days_iso(dt, days) ==
  LET sum == add_days(dt, days)
  IN  IF sum.kind = "raise" THEN sum
      ELSE Return(Str(isoformat(date(sum.value))))

\* Mutation of days_ahead: the roll-over tests `< 0`, so R's own weekday
\* resolves to R.
days_ahead_same_day(target, current, text) ==
  LET diff   == target - current
      rolled == IF diff < 0 THEN diff + 7 ELSE diff
  IN  IF Contains(text, w_next) THEN rolled + 7 ELSE rolled

\* Mutation of days_ahead: the extra week for "next" is left out.
days_ahead_without_next(target, current, text) ==
  LET diff == target - current
  IN  IF diff <= 0 THEN diff + 7 ELSE diff

\* Mutation of days_ahead: the extra week is added only when the text begins
\* with "next" (the lead-in), not when "next" occurs anywhere.
days_ahead_next_lead_in(target, current, text) ==
  LET diff   == target - current
      rolled == IF diff <= 0 THEN diff + 7 ELSE diff
  IN  IF StartsAt(text, 1, w_next) THEN rolled + 7 ELSE rolled

\* The offset to the target weekday: rolled into 1..7, plus 7 when the text
\* contains "next".
days_ahead(target, current, text) ==
  LET diff   == target - current
      rolled == IF diff <= 0 THEN diff + 7 ELSE diff
  IN  IF Contains(text, w_next) THEN rolled + 7 ELSE rolled

\* The tail of the function, shared by the end-of-week and weekday branches.
weekday_result(target, dt, text) ==
  plus_days_iso(dt, days_ahead(target, weekday(dt), text))

\* The branch taken once `in N days` has matched.
in_days_result(match, dt) ==
  LET days == py_int(match.group1.s)
  IN  IF days.kind = "raise" THEN days ELSE plus_days_iso(dt, days.value)

\* resolve_deadline_text(deadline_text, base_date): the outcome of the call.
resolve_deadline_text(text_arg, dt) ==
  IF ~truthy(text_arg) THEN Return(None)
  ELSE
    LET text == normalise(text_arg)
    IN  IF text = w_today THEN Return(Str(isoformat(date(dt))))
        ELSE IF text = w_tomorrow THEN plus_days_iso(dt, 1)
        ELSE IF text \in {Join(<<w_day, w_after, w_tomorrow>>)} THEN plus_days_iso(dt, 2)
        ELSE
          LET match == in_days_search(text)
          IN  IF match.found THEN in_days_result(match, dt)
              ELSE IF text \in END_OF_WEEK_PHRASES
              THEN weekday_result(WEEKDAYS_get(w_friday), dt, text)
              ELSE
                LET wmatch == weekday_search(text)
                IN  IF ~wmatch.found THEN Return(None)
                    ELSE weekday_result(WEEKDAYS_get(wmatch.group2.s), dt, text)

(***************************************************************************)
(* Inputs of the resolver: phrases and reference dates                     *)
(***************************************************************************)

\* Reference dates: every day of BaseYear .. BaseYear + YearSpan - 1.
BaseYear == 2024

\* Number of consecutive years the reference dates cover.
YearSpan == 2

\* Largest number of digits of N in the generated "in N days" phrases.
MaxDigits == 7

\* Hours of the day the reference datetime may carry.
Hours == {0, 23}

\* The N of the generated "in N days" phrases: small offsets, a month, a
\* year, and the largest number of MaxDigits digits.
RECURSIVE Nines(_)
Nines(k) == IF k = 0 THEN 0 ELSE 10 * Nines(k - 1) + 9

\* Values of N.
NValues == {0, 1, 2, 3, 30, 365, Nines(MaxDigits)}

\* str(n) for n >= 0.
RECURSIVE Decimal(_)
Decimal(n) == IF n < 10 THEN <<DigitChar(n)>> ELSE Decimal(n \div 10) \o <<DigitChar(n % 10)>>

\* f"in {n} days"
InDaysPhrase(n) == Join(<<w_in, Decimal(n), w_days>>)

\* The seven weekday names.
WeekdayNames == {WeekdayAlternation[k] : k \in 1..Len(WeekdayAlternation)}

\* Texts no matcher recognises.
UnrecognisedTexts ==
  {<<" ", " ", " ">>,   \* "   "
   <<"g", "i", "b", "b", "e", "r", "i", "s", "h", " ", "x", "y", "z">>,   \* "gibberish xyz"
   <<"a", "s", "a", "p">>,   \* "asap"
   <<"i", "n", " ", " ", "d", "a", "y", "s">>,   \* "in  days"
   <<"i", "n", " ", "x", " ", "d", "a", "y", "s">>,   \* "in x days"
   <<"n", "e", "x", "t">>,   \* "next"
   <<"n", "e", "x", "t", " ", "w", "e", "e", "k">>,   \* "next week"
   <<"w", "e", "e", "k", "e", "n", "d", "s">>,   \* "weekends"
   <<"e", "n", "d", " ", "o", "f", " ", "t", "h", "e", " ", "w", "e", "e", "k">>,   \* "end of the week"
   <<"w", "e", "e", "k", " ", " ", "e", "n", "d">>,   \* "week  end"
   <<"t", "o", "d", "a", "y", "s">>,   \* "todays"
   <<"f", "r", "i">>}  \* "fri"

\* today / tomorrow / day after tomorrow in other spellings.
ExactTexts ==
  {<<"T", "o", "d", "a", "y">>,   \* "Today"
   <<" ", "T", "O", "M", "O", "R", "R", "O", "W", "\n">>,   \* " TOMORROW\n"
   <<"D", "a", "y", " ", "A", "f", "t", "e", "r", " ", "T", "o", "m", "o", "r", "r", "o", "w">>}  \* "Day After Tomorrow"

\* Texts holding an `in N days` pattern.
InDaysTexts ==
  {<<"i", "n", " ", " ", "7", "\t", "d", "a", "y", "s">>,   \* "in  7\tdays"
   <<"i", "n", " ", "0", "0", "7", " ", "d", "a", "y", "s">>,   \* "in 007 days"
   <<"w", "i", "t", "h", "i", "n", " ", "5", " ", "d", "a", "y", "s">>,   \* "within 5 days"
   <<"d", "u", "e", " ", "i", "n", " ", "1", "0", " ", "d", "a", "y", "s">>,   \* "due in 10 days"
   <<"I", "N", " ", "3", " ", "D", "A", "Y", "S">>,   \* "IN 3 DAYS"
   <<"i", "n", " ", "3", " ", "d", "a", "y", "s", " ", "f", "r", "i", "d", "a", "y">>,   \* "in 3 days friday"
   <<"n", "e", "x", "t", " ", "f", "r", "i", "d", "a", "y", " ", "i", "n", " ", "2", " ", "d", "a", "y", "s">>}  \* "next friday in 2 days"

\* End-of-week synonyms in other spellings.
EndOfWeekTexts ==
  {<<"E", "n", "d", " ", "O", "f", " ", "W", "e", "e", "k">>,   \* "End Of Week"
   <<" ", "w", "e", "e", "k", "e", "n", "d", " ">>,   \* " weekend "
   <<"W", "E", "E", "K", " ", "E", "N", "D">>}  \* "WEEK END"

\* Texts holding a weekday name.
WeekdayTexts ==
  {<<"b", "y", " ", "f", "r", "i", "d", "a", "y">>,   \* "by friday"
   <<"F", "R", "I", "D", "A", "Y">>,   \* "FRIDAY"
   <<"F", "r", "i", "d", "a", "y">>,   \* "Friday"
   <<" ", "f", "r", "i", "d", "a", "y", " ">>,   \* " friday "
   <<"N", "e", "x", "t", " ", "T", "u", "e", "s", "d", "a", "y">>,   \* "Next Tuesday"
   <<"f", "r", "i", "d", "a", "y", " ", "n", "e", "x", "t">>,   \* "friday next"
   <<"m", "e", "n", "t", "i", "o", "n", "e", "d", " ", "n", "e", "x", "t", " ", "t", "o", " ", "f", "r", "i", "d", "a", "y">>,   \* "mentioned next to friday"
   <<"f", "r", "i", "d", "a", "y", " ", "m", "o", "n", "d", "a", "y">>,   \* "friday monday"
   <<"t", "h", "i", "s", " ", " ", "m", "o", "n", "d", "a", "y">>,   \* "this  monday"
   <<"t", "h", "i", "s", "f", "r", "i", "d", "a", "y">>,   \* "thisfriday"
   <<"n", "e", "x", "t", "\t", "f", "r", "i", "d", "a", "y">>,   \* "next\tfriday"
   <<"T", "h", "i", "s", " ", "S", "u", "n", "d", "a", "y">>}  \* "This Sunday"

\* Every phrase the resolver is called with: None, "", and the texts above.
Phrases ==
  {None, Str(<<>>)} \cup
  {Str(t) : t \in
     UnrecognisedTexts \cup ExactTexts \cup InDaysTexts \cup EndOfWeekTexts \cup WeekdayTexts
     \cup {w_today, w_tomorrow, Join(<<w_day, w_after, w_tomorrow>>)}
     \cup {InDaysPhrase(n) : n \in NValues}
     \cup {Join(<<w_friday, InDaysPhrase(Nines(MaxDigits))>>)}
     \cup END_OF_WEEK_PHRASES
     \cup WeekdayNames
     \cup {Join(<<w_this, w>>) : w \in WeekdayNames}
     \cup {Join(<<w_next, w>>) : w \in WeekdayNames}}

\* Days of a month, by the calendar rule (thirty days hath September...).
MonthLength(y, m) ==
  IF m = 2 THEN (IF y % 400 = 0 \/ (y % 4 = 0 /\ y % 100 # 0) THEN 29 ELSE 28)
  ELSE IF m \in {4, 6, 9, 11} THEN 30 ELSE 31

\* Every datetime of the covered years, at the hours above.
Dates ==
  {[year |-> y, month |-> m, day |-> d, hour |-> h] :
     y \in BaseYear..(BaseYear + YearSpan - 1), m \in 1..12, d \in 1..31, h \in Hours}

\* The datetimes that exist in the calendar.
ValidDates == {dt \in Dates : dt.day <= MonthLength(dt.year, dt.month)}

\* An empty result dict, for runs that only call the resolver.
EmptyResult == [k \in {} |-> None]

(***************************************************************************)
(* The resolver called once: resolve_deadline_text(deadline_text, base_date) *)
(***************************************************************************)

InitResolve ==
  /\ deadline_text \in Phrases
  /\ base_date \in ValidDates
  /\ outcome = NoOutcome
  /\ pc = "call"
  /\ result = EmptyResult
  /\ idx = 0
  /\ original = EmptyResult

\* The call runs to its return or to the exception it raises.
ResolveCall ==
  /\ pc = "call"
  /\ outcome' = resolve_deadline_text(deadline_text, base_date)
  /\ pc' = "done"
  /\ UNCHANGED <<deadline_text, base_date, result, idx, original>>

NextResolve == ResolveCall

SpecResolve == InitResolve /\ [][NextResolve]_vars

(***************************************************************************)
(* Calendar and spelling notions the properties are stated with.  They     *)
(* are defined from the calendar itself (day after day, Zeller's           *)
(* congruence), not from the ordinal arithmetic of the code.               *)
(***************************************************************************)

\* The calendar day of a datetime.
Day(dt) == [year |-> dt.year, month |-> dt.month, day |-> dt.day]

\* The first day of the month after d's.
NextMonthStart(d) ==
  IF d.month < 12 THEN [year |-> d.year, month |-> d.month + 1, day |-> 1]
  ELSE [year |-> d.year + 1, month |-> 1, day |-> 1]

\* The calendar day n days after d: within d's month while the month lasts,
\* otherwise counted on from the first of the next month.
RECURSIVE PlusDays(_, _)
PlusDays(d, n) ==
  IF d.day + n <= MonthLength(d.year, d.month) THEN [d EXCEPT !.day = @ + n]
  ELSE PlusDays(NextMonthStart(d), n - (MonthLength(d.year, d.month) - d.day + 1))

\* The weekday of d by Zeller's congruence, Monday = 0 .. Sunday = 6.
WeekdayOf(d) ==
  LET m == IF d.month < 3 THEN d.month + 12 ELSE d.month
      y == IF d.month < 3 THEN d.year - 1 ELSE d.year
      K == y % 100
      J == y \div 100
      h == (d.day + ((13 * (m + 1)) \div 5) + K + (K \div 4) + (J \div 4) + 5 * J) % 7
  IN  (h + 5) % 7

\* The ten digits.
Digits == <<"0", "1", "2", "3", "4", "5", "6", "7", "8", "9">>

\* The text YYYY-MM-DD of a calendar day.
IsoText(d) ==
  <<Digits[(d.year \div 1000) + 1], Digits[((d.year \div 100) % 10) + 1],
    Digits[((d.year \div 10) % 10) + 1], Digits[(d.year % 10) + 1], "-",
    Digits[(d.month \div 10) + 1], Digits[(d.month % 10) + 1], "-",
    Digits[(d.day \div 10) + 1], Digits[(d.day % 10) + 1]>>

\* The result "date d, as an ISO string".
Resolved(d) == Return(Str(IsoText(d)))

\* Whether v is a string of the shape dddd-dd-dd.
IsIsoDate(v) ==
  /\ v.t = "str"
  /\ Len(v.s) = 10
  /\ \A i \in 1..10 : IF i \in {5, 8} THEN v.s[i] = "-" ELSE IsDigit(v.s[i])

\* One character in upper case.
UpperChar(c) ==
  CASE c = "a" -> "A" [] c = "b" -> "B" [] c = "c" -> "C" [] c = "d" -> "D"
    [] c = "e" -> "E" [] c = "f" -> "F" [] c = "g" -> "G" [] c = "h" -> "H"
    [] c = "i" -> "I" [] c = "j" -> "J" [] c = "k" -> "K" [] c = "l" -> "L"
    [] c = "m" -> "M" [] c = "n" -> "N" [] c = "o" -> "O" [] c = "p" -> "P"
    [] c = "q" -> "Q" [] c = "r" -> "R" [] c = "s" -> "S" [] c = "t" -> "T"
    [] c = "u" -> "U" [] c = "v" -> "V" [] c = "w" -> "W" [] c = "x" -> "X"
    [] c = "y" -> "Y" [] c = "z" -> "Z" [] OTHER -> c

\* s in upper case.
Upper(s) == [i \in 1..Len(s) |-> UpperChar(s[i])]

\* s with the case of every second letter raised.
MixedCase(s) == [i \in 1..Len(s) |-> IF i % 2 = 1 THEN UpperChar(s[i]) ELSE s[i]]

\* Respellings of s: other letter case, whitespace added before and after.
Respellings(s) ==
  {Upper(s), MixedCase(s), <<" ", "\t">> \o s \o <<"\n">>,
   <<" ">> \o Upper(s) \o <<" ", " ">>}

\* Whether t holds the pattern `in <N> days`: "in", whitespace, digits,
\* whitespace, "days", stated by the positions where the pieces meet.
HasInDaysPattern(t) ==
  \E i \in 1..Len(t) :
    /\ StartsAt(t, i, w_in)
    /\ \E k \in (i + 5)..Len(t) :
         /\ StartsAt(t, k, w_days)
         /\ \E x \in (i + 3)..(k - 2) : \E y \in (x + 1)..(k - 1) :
              /\ \A j \in (i + 2)..(x - 1) : IsSpace(t[j])
              /\ \A j \in x..(y - 1) : IsDigit(t[j])
              /\ \A j \in y..(k - 1) : IsSpace(t[j])

\* Whether t holds a weekday name.
HasWeekdayName(t) ==
  \E w \in WeekdayNames : \E i \in 1..Len(t) : StartsAt(t, i, w)

\* The three end-of-week synonyms.
EndOfWeekSynonyms ==
  {<<"e", "n", "d", " ", "o", "f", " ", "w", "e", "e", "k">>,
   <<"w", "e", "e", "k", " ", "e", "n", "d">>,
   <<"w", "e", "e", "k", "e", "n", "d">>}

\* The phrases no rule of the resolver covers.
Unrecognised(p) ==
  \/ p = None
  \/ p.s = <<>>
  \/ LET t == Strip(Lower(p.s))
     IN  /\ t \notin {w_today, w_tomorrow, Join(<<w_day, w_after, w_tomorrow>>)}
         /\ ~HasInDaysPattern(t)
         /\ t \notin EndOfWeekSynonyms
         /\ ~HasWeekdayName(t)

\* The reference date of the spec's worked examples: Wednesday 2024-01-03.
IsExampleDay(dt) == Day(dt) = [year |-> 2024, month |-> 1, day |-> 3]

\* Strings of the spec's worked examples.
GIBBERISH == <<"g", "i", "b", "b", "e", "r", "i", "s", "h", " ", "x", "y", "z">>

\* "2024-03-01"
ISO_2024_03_01 == <<"2", "0", "2", "4", "-", "0", "3", "-", "0", "1">>

\* "2024-01-05"
ISO_2024_01_05 == <<"2", "0", "2", "4", "-", "0", "1", "-", "0", "5">>

\* "2024-01-08"
ISO_2024_01_08 == <<"2", "0", "2", "4", "-", "0", "1", "-", "0", "8">>

\* "2024-01-10"
ISO_2024_01_10 == <<"2", "0", "2", "4", "-", "0", "1", "-", "1", "0">>

\* "2024-01-16"
ISO_2024_01_16 == <<"2", "0", "2", "4", "-", "0", "1", "-", "1", "6">>

(***************************************************************************)
(* Properties of resolve_deadline_text (checked under SpecResolve)         *)
(***************************************************************************)

\* C1: the call is total: for every phrase and reference date it finishes
\* by returning an ISO date string or None, never by raising.
C1_Total ==
  pc = "done" =>
    /\ outcome.kind = "return"
    /\ (outcome.value = None \/ IsIsoDate(outcome.value))

\* C2: a phrase that is None, empty, or matches none of the rules after
\* lowercasing and trimming resolves to None.
C2_UnrecognisedIsNone ==
  (pc = "done" /\ Unrecognised(deadline_text)) => outcome = Return(None)

\* C2 happens: "gibberish xyz" was resolved to None.
C2_Witness ==
  /\ pc = "done"
  /\ deadline_text = Str(GIBBERISH)
  /\ Unrecognised(deadline_text)
  /\ outcome = Return(None)

\* C3: "today" is R, "tomorrow" is R + 1 day, "day after tomorrow" is
\* R + 2 days, as calendar dates without the time of day.
C3_TodayTomorrow ==
  pc = "done" =>
    /\ deadline_text = Str(w_today) => outcome = Resolved(Day(base_date))
    /\ deadline_text = Str(w_tomorrow) => outcome = Resolved(PlusDays(Day(base_date), 1))
    /\ deadline_text = Str(Join(<<w_day, w_after, w_tomorrow>>))
         => outcome = Resolved(PlusDays(Day(base_date), 2))

\* C3 happens: "tomorrow" late on 2024-02-29 gave 2024-03-01.
C3_Witness ==
  /\ pc = "done"
  /\ deadline_text = Str(w_tomorrow)
  /\ base_date = [year |-> 2024, month |-> 2, day |-> 29, hour |-> 23]
  /\ outcome = Return(Str(ISO_2024_03_01))

\* C4: for every N >= 0, "in N days" is the calendar date R + N days.
C4_InNDays ==
  \A n \in NValues :
    (pc = "done" /\ deadline_text = Str(InDaysPhrase(n))) =>
      /\ outcome.kind = "return"
      /\ outcome = Resolved(PlusDays(Day(base_date), n))

\* C4 restricted to the N for which R + N days is a date the datetime module
\* can hold (year <= 9999); 2024-02-28 with "in 2 days" is 2024-03-01.
C4_InNDaysInRange ==
  \A n \in NValues :
    (pc = "done" /\ deadline_text = Str(InDaysPhrase(n))
       /\ toordinal(base_date) + n <= MAXORDINAL) =>
      /\ outcome = Resolved(PlusDays(Day(base_date), n))
      /\ (Day(base_date) = [year |-> 2024, month |-> 2, day |-> 28] /\ n = 2)
           => outcome = Return(Str(ISO_2024_03_01))

\* C5: each end-of-week synonym resolves to the first Friday strictly after
\* R: a Friday 1 to 7 days after R, never R, never a week more.
C5_EndOfWeek ==
  (pc = "done" /\ deadline_text.s \in EndOfWeekSynonyms) =>
    \E k \in 1..7 :
      /\ WeekdayOf(PlusDays(Day(base_date), k)) = 4
      /\ outcome = Resolved(PlusDays(Day(base_date), k))

\* C5 happens: "end of week" on a Friday gave the Friday a week later.
C5_Witness ==
  /\ pc = "done"
  /\ deadline_text.s \in EndOfWeekSynonyms
  /\ WeekdayOf(Day(base_date)) = 4
  /\ outcome = Resolved(PlusDays(Day(base_date), 7))

\* C6: a weekday name W alone or as "this W" resolves to the first date
\* strictly after R whose weekday is W: the offset is ordinal(W) -
\* weekday(R), plus 7 when that is <= 0, so it is in 1..7 and R's own
\* weekday gives R + 7; on 2024-01-03 "friday" is 2024-01-05, "monday" is
\* 2024-01-08 and "wednesday" is 2024-01-10.
C6_Weekday ==
  \A k \in 1..7 :
    LET W == WeekdayAlternation[k]
    IN  (pc = "done" /\ deadline_text \in {Str(W), Str(Join(<<w_this, W>>))}) =>
          LET diff == (k - 1) - WeekdayOf(Day(base_date))
              off  == IF diff <= 0 THEN diff + 7 ELSE diff
              d    == PlusDays(Day(base_date), off)
          IN  /\ off \in 1..7
              /\ outcome = Resolved(d)
              /\ WeekdayOf(d) = k - 1
              /\ \A j \in 1..(off - 1) : WeekdayOf(PlusDays(Day(base_date), j)) # k - 1
              /\ (IsExampleDay(base_date) /\ W = w_friday) => outcome = Return(Str(ISO_2024_01_05))
              /\ (IsExampleDay(base_date) /\ W = w_monday) => outcome = Return(Str(ISO_2024_01_08))
              /\ (IsExampleDay(base_date) /\ W = w_wednesday) => outcome = Return(Str(ISO_2024_01_10))

\* C6 happens: "wednesday" on Wednesday 2024-01-03 gave 2024-01-10.
C6_Witness ==
  /\ pc = "done"
  /\ deadline_text = Str(w_wednesday)
  /\ IsExampleDay(base_date)
  /\ outcome = Return(Str(ISO_2024_01_10))

\* C7: "next W" resolves exactly 7 days later than "W" does for the same R;
\* on 2024-01-03 "next tuesday" is 2024-01-16.
C7_NextIsWeekLater ==
  \A W \in WeekdayNames :
    (pc = "done" /\ deadline_text = Str(Join(<<w_next, W>>))) =>
      /\ \E k \in 1..7 :
           /\ resolve_deadline_text(Str(W), base_date) = Resolved(PlusDays(Day(base_date), k))
           /\ outcome = Resolved(PlusDays(Day(base_date), k + 7))
      /\ (IsExampleDay(base_date) /\ W = w_tuesday) => outcome = Return(Str(ISO_2024_01_16))

\* C7 happens: "next tuesday" on 2024-01-03 gave 2024-01-16.
C7_Witness ==
  /\ pc = "done"
  /\ deadline_text = Str(Join(<<w_next, w_tuesday>>))
  /\ IsExampleDay(base_date)
  /\ outcome = Return(Str(ISO_2024_01_16))

\* C8: letter case and leading/trailing whitespace do not matter: the
\* phrase in upper or mixed case, with whitespace added around it, resolves
\* as the phrase itself does.
C8_CaseAndSpace ==
  (pc = "done" /\ deadline_text # None) =>
    \A v \in Respellings(deadline_text.s) :
      resolve_deadline_text(Str(v), base_date) = outcome

\* C8 happens: a weekday phrase was resolved to a date, and its upper-case
\* padded respelling is a different string.
C8_Witness ==
  /\ pc = "done"
  /\ deadline_text = Str(Join(<<w_next, w_tuesday>>))
  /\ outcome.kind = "return"
  /\ outcome.value # None
  /\ \A v \in Respellings(deadline_text.s) : v # deadline_text.s

(***************************************************************************)
(* actions_items_parser                                                    *)
(***************************************************************************)

\* dict.pop(key, None): the dict without key.
dict_pop(d, key) == [k \in DOMAIN d \ {key} |-> d[k]]

\* d[key] = v
dict_set(d, key, v) == [k \in DOMAIN d \cup {key} |-> IF k = key THEN v ELSE d[k]]

\* d.get(key, default)
dict_get(d, key, default) == IF key \in DOMAIN d THEN d[key] ELSE default

\* result.get("action_items", [])
action_items(res) == dict_get(res, "action_items", <<>>)

\* Mutation of strip_owner: the schema's "owner_name" is popped as well.
strip_owner_and_name(item) ==
  dict_pop(dict_pop(dict_pop(item, "owner"), "email"), "owner_name")

\* item.pop("owner", None); item.pop("email", None)
strip_owner(item) == dict_pop(dict_pop(item, "owner"), "email")

\* Mutation of store_deadline: the final pop of "deadline_text" is left out.
store_deadline_keeps_text(item, resolved_date) ==
  dict_set(item, "deadline", resolved_date)

\* item["deadline"] = resolved_date; item.pop("deadline_text", None)
store_deadline(item, resolved_date) ==
  dict_pop(dict_set(item, "deadline", resolved_date), "deadline_text")

\* result with item number i of its action_items replaced (the list holds
\* the dicts by reference, so mutating the item mutates result).
with_item(res, i, item) == [res EXCEPT !["action_items"][i] = item]

(***************************************************************************)
(* Inputs of the parser                                                    *)
(***************************************************************************)

\* Largest number of action items in a result.
MaxItems == 2

\* Opaque field values.
Text(c) == Str(<<c>>)

\* The deadline_text values of the items.
ItemPhrases ==
  {None, Str(<<>>), Str(w_friday), Str(GIBBERISH), Str(InDaysPhrase(2)),
   Str(<<"N", "e", "x", "t", " ">> \o w_tuesday), Str(InDaysPhrase(Nines(MaxDigits)))}

\* Items in the shape the extraction prompt asks for.
SchemaItems ==
  {[description |-> Text("a"), owner_name |-> Text("n"), deadline_text |-> p, deadline |-> None] :
     p \in ItemPhrases}

\* Items carrying the legacy "owner" and "email" fields.
LegacyItems ==
  {[description |-> Text("b"), owner |-> Text("o"), email |-> Text("e"), deadline_text |-> p] :
     p \in ItemPhrases}

\* Items without a deadline_text field.
BareItems == {[description |-> Text("c"), owner |-> Text("o")]}

\* Every item.
Items == SchemaItems \cup LegacyItems \cup BareItems

\* Lists of at most n items.
ItemLists(n) == UNION {[1..k -> Items] : k \in 0..n}

\* The dicts start_process returns: the outputs with their action items,
\* or the error report, which has no "action_items" key.
Results ==
  {[meeting_type |-> Text("m"), action_items |-> l, decisions |-> Text("d"),
    risks |-> Text("r"), open_questions |-> Text("q"), emails |-> Text("e")] :
     l \in ItemLists(MaxItems)}
  \cup {[error |-> Text("x"), outputs |-> Text("o")]}

\* The reference dates of the parser runs: the spec's example day, a day
\* before a leap day, and the last day of a year.
ParserDates ==
  {[year |-> 2024, month |-> 1, day |-> 3, hour |-> 23],
   [year |-> 2024, month |-> 2, day |-> 28, hour |-> 0],
   [year |-> 2024, month |-> 12, day |-> 31, hour |-> 23]}

(***************************************************************************)
(* actions_items_parser(result, base_date), one loop iteration per step    *)
(***************************************************************************)

Init ==
  /\ result \in Results
  /\ original = result
  /\ base_date \in ParserDates
  /\ idx = 1
  /\ pc = "loop"
  /\ deadline_text = None
  /\ outcome = NoOutcome

\* One iteration of the for loop whose resolver call returns.
ParserIter ==
  /\ pc = "loop"
  /\ idx <= Len(action_items(result))
  /\ LET item     == strip_owner(action_items(result)[idx])
         text     == dict_get(item, "deadline_text", None)
         resolved == resolve_deadline_text(text, base_date)
     IN  /\ resolved.kind = "return"
         /\ deadline_text' = text
         /\ outcome' = resolved
         /\ result' = with_item(result, idx, store_deadline(item, resolved.value))
  /\ idx' = idx + 1
  /\ UNCHANGED <<base_date, pc, original>>

\* One iteration whose resolver call raises: the exception leaves the
\* function after owner and email were popped from the item.
ParserRaise ==
  /\ pc = "loop"
  /\ idx <= Len(action_items(result))
  /\ LET item     == strip_owner(action_items(result)[idx])
         text     == dict_get(item, "deadline_text", None)
         resolved == resolve_deadline_text(text, base_date)
     IN  /\ resolved.kind = "raise"
         /\ deadline_text' = text
         /\ outcome' = resolved
         /\ result' = with_item(result, idx, item)
  /\ pc' = "raised"
  /\ UNCHANGED <<base_date, idx, original>>

\* The loop is exhausted: return result.
ParserReturn ==
  /\ pc = "loop"
  /\ idx > Len(action_items(result))
  /\ pc' = "done"
  /\ UNCHANGED <<deadline_text, base_date, outcome, result, idx, original>>

Next == ParserIter \/ ParserRaise \/ ParserReturn

Spec == Init /\ [][Next]_vars

(***************************************************************************)
(* Properties of actions_items_parser (checked under Spec)                 *)
(***************************************************************************)

\* The fields the parser may remove or write.
TouchedFields == {"owner", "email", "deadline_text", "deadline"}

\* C9: after the parser returns, every record has a "deadline" equal to the
\* resolver's result for the record's original deadline_text (None when the
\* field was absent) against the shared base_date, and no "deadline_text",
\* "owner" or "email" field.
C9_DeadlinesResolved ==
  pc = "done" =>
    /\ Len(action_items(result)) = Len(action_items(original))
    /\ \A i \in 1..Len(action_items(result)) :
         LET item == action_items(result)[i]
             was  == action_items(original)[i]
             text == IF "deadline_text" \in DOMAIN was THEN was["deadline_text"] ELSE None
         IN  /\ "deadline" \in DOMAIN item
             /\ Return(item["deadline"]) = resolve_deadline_text(text, base_date)
             /\ DOMAIN item \cap {"deadline_text", "owner", "email"} = {}

\* C9 happens: the parser returned a record whose "friday" became a date and
\* whose owner and email are gone, next to one without deadline_text.
C9_Witness ==
  /\ pc = "done"
  /\ Len(action_items(original)) = 2
  /\ action_items(original)[1] \in LegacyItems
  /\ action_items(original)[1]["deadline_text"] = Str(w_friday)
  /\ action_items(result)[1]["deadline"] = Str(ISO_2024_01_05)
  /\ action_items(original)[2] \in BareItems
  /\ action_items(result)[2]["deadline"] = None

\* C10: the parser keeps the number and order of the records, every field
\* other than owner, email, deadline_text and deadline, and every other key
\* of result; a result without "action_items" is returned unchanged.
C10_Frame ==
  /\ DOMAIN result = DOMAIN original
  /\ \A k \in DOMAIN original \ {"action_items"} : result[k] = original[k]
  /\ Len(action_items(result)) = Len(action_items(original))
  /\ \A i \in 1..Len(action_items(original)) :
       LET item == action_items(result)[i]
           was  == action_items(original)[i]
       IN  /\ DOMAIN item \ TouchedFields = DOMAIN was \ TouchedFields
           /\ \A f \in DOMAIN was \ TouchedFields : item[f] = was[f]
  /\ ("action_items" \notin DOMAIN original /\ pc = "done") => result = original

\* C10 happens: the parser returned two different records, both rewritten,
\* in their original order.
C10_Witness ==
  /\ pc = "done"
  /\ Len(action_items(original)) = 2
  /\ action_items(original)[1] \in SchemaItems
  /\ action_items(original)[2] \in LegacyItems
  /\ action_items(result)[1] # action_items(original)[1]
  /\ action_items(result)[2] # action_items(original)[2]
  /\ action_items(result)[1]["description"] = Text("a")
  /\ action_items(result)[2]["description"] = Text("b")

(***************************************************************************)
(* Matcher order, the "next" substring and the range of the results        *)
(* (checked under SpecResolve)                                             *)
(***************************************************************************)

\* The phrase as the matchers see it: lowercased and trimmed ("" for None).
Seen(p) == Strip(Lower(p.s))

\* The numbers N of the `in <N> days` patterns of t.
PatternNumbers(t) ==
  {DigitsValue(SubSeq(t, xy[1], xy[2] - 1)) :
     xy \in {q \in (1..Len(t)) \X (1..Len(t)) :
               /\ q[1] < q[2]
               /\ \A j \in q[1]..(q[2] - 1) : IsDigit(t[j])
               /\ \E i \in 1..Len(t) :
                    /\ StartsAt(t, i, w_in)
                    /\ i + 2 < q[1]
                    /\ \A j \in (i + 2)..(q[1] - 1) : IsSpace(t[j])
               /\ \E k \in (q[2] + 1)..Len(t) :
                    /\ StartsAt(t, k, w_days)
                    /\ \A j \in q[2]..(k - 1) : IsSpace(t[j])}}

\* The ordinals (Monday = 0) of the weekday names that occur in t.
NamedWeekdays(t) ==
  {k - 1 : k \in {j \in 1..7 : \E i \in 1..Len(t) : StartsAt(t, i, WeekdayAlternation[j])}}

\* t is resolved by one of the three exact phrases.
IsExactPhrase(t) == t \in {w_today, w_tomorrow, Join(<<w_day, w_after, w_tomorrow>>)}

\* t holds both an `in <N> days` pattern and a weekday name.
HasBoth(t) == HasInDaysPattern(t) /\ HasWeekdayName(t)

\* t reaches the weekday matcher and matches it.
IsWeekdayPhrase(t) ==
  /\ ~IsExactPhrase(t)
  /\ ~HasInDaysPattern(t)
  /\ t \notin EndOfWeekSynonyms
  /\ HasWeekdayName(t)

\* "in 3 days friday"
IN_3_DAYS_FRIDAY == Join(<<w_in, <<"3">>, w_days, w_friday>>)

\* "next friday in 2 days"
NEXT_FRIDAY_IN_2_DAYS == Join(<<w_next, w_friday, w_in, <<"2">>, w_days>>)

\* C11: the matchers apply in the order today, tomorrow, day after
\* tomorrow, `in <N> days`, end of week, weekday, and the first match wins:
\* a phrase with both an `in <N> days` pattern and a weekday name (with or
\* without "next") resolves to R + N days, not to the weekday.
C11_InDaysBeforeWeekday ==
  (pc = "done" /\ deadline_text # None /\ HasBoth(Seen(deadline_text))) =>
    /\ outcome.kind = "return"
    /\ \E n \in PatternNumbers(Seen(deadline_text)) :
         outcome = Resolved(PlusDays(Day(base_date), n))

\* C11 for the N that keep R + N days within the dates the datetime module
\* can hold: the result is R + N days ("in 3 days friday" is R + 3, "next
\* friday in 2 days" is R + 2), whatever the weekday rule would have given.
C11_InDaysBeforeWeekdayInRange ==
  (pc = "done" /\ deadline_text # None /\ HasBoth(Seen(deadline_text))
     /\ \A n \in PatternNumbers(Seen(deadline_text)) : toordinal(base_date) + n <= MAXORDINAL) =>
    /\ \E n \in PatternNumbers(Seen(deadline_text)) :
         outcome = Resolved(PlusDays(Day(base_date), n))
    /\ deadline_text = Str(IN_3_DAYS_FRIDAY) => outcome = Resolved(PlusDays(Day(base_date), 3))
    /\ deadline_text = Str(NEXT_FRIDAY_IN_2_DAYS) => outcome = Resolved(PlusDays(Day(base_date), 2))

\* Whether "next" occurs in t.
HasNext(t) ==
  \E i \in 1..(Len(t) - 3) :
    t[i] = "n" /\ t[i + 1] = "e" /\ t[i + 2] = "x" /\ t[i + 3] = "t"

\* "friday next"
FRIDAY_NEXT == Join(<<w_friday, w_next>>)

\* "mentioned next to friday"
MENTIONED_NEXT_TO_FRIDAY ==
  <<"m", "e", "n", "t", "i", "o", "n", "e", "d", " ", "n", "e", "x", "t", " ",
    "t", "o", " ", "f", "r", "i", "d", "a", "y">>

\* "2024-01-12"
ISO_2024_01_12 == <<"2", "0", "2", "4", "-", "0", "1", "-", "1", "2">>

\* C12: for a phrase the weekday matcher resolves, the extra 7 days are added
\* whenever "next" occurs anywhere in the trimmed lowercased phrase, lead-in
\* or not: the offset is then in 8..14 (and in 1..7 without "next"), and
\* "friday next" and "mentioned next to friday" resolve 7 days later than
\* "friday" for every R.
C12_NextAnywhere ==
  (pc = "done" /\ deadline_text # None /\ IsWeekdayPhrase(Seen(deadline_text))) =>
    /\ \E k \in 1..7 :
         /\ WeekdayOf(PlusDays(Day(base_date), k)) \in NamedWeekdays(Seen(deadline_text))
         /\ outcome = Resolved(PlusDays(Day(base_date),
                                 IF HasNext(Seen(deadline_text)) THEN k + 7 ELSE k))
    /\ deadline_text \in {Str(FRIDAY_NEXT), Str(MENTIONED_NEXT_TO_FRIDAY)} =>
         \E k \in 1..7 :
           /\ resolve_deadline_text(Str(w_friday), base_date) = Resolved(PlusDays(Day(base_date), k))
           /\ outcome = Resolved(PlusDays(Day(base_date), k + 7))

\* C12 happens: "mentioned next to friday" on Wednesday 2024-01-03 gave
\* 2024-01-12, a week after the coming Friday.
C12_Witness ==
  /\ pc = "done"
  /\ deadline_text = Str(MENTIONED_NEXT_TO_FRIDAY)
  /\ IsExampleDay(base_date)
  /\ outcome = Return(Str(ISO_2024_01_12))

\* The calendar day an ISO string YYYY-MM-DD names.
ParseIso(iso) ==
  [year  |-> DigitsValue(SubSeq(iso, 1, 4)),
   month |-> DigitsValue(SubSeq(iso, 6, 7)),
   day   |-> DigitsValue(SubSeq(iso, 9, 10))]

\* Whether calendar day a is earlier than calendar day b.
Earlier(a, b) ==
  \/ a.year < b.year
  \/ a.year = b.year /\ a.month < b.month
  \/ a.year = b.year /\ a.month = b.month /\ a.day < b.day

\* The ordinal (Monday = 0) of the weekday name that occurs first in t.
FirstNamedWeekday(t) ==
  LET at(k) == CHOOSE i \in 1..Len(t) :
                 /\ StartsAt(t, i, WeekdayAlternation[k])
                 /\ \A j \in 1..(i - 1) : ~StartsAt(t, j, WeekdayAlternation[k])
      named == {k \in 1..7 : \E i \in 1..Len(t) : StartsAt(t, i, WeekdayAlternation[k])}
  IN  (CHOOSE k \in named : \A j \in named : at(k) <= at(j)) - 1

\* C13: a result other than None is never earlier than R; it is R only for
\* "today" or an `in 0 days` pattern; for an end-of-week or weekday phrase it
\* is 1 to 14 days after R and falls on the targeted weekday.
C13_ResultRange ==
  (pc = "done" /\ outcome.kind = "return" /\ outcome.value # None) =>
    LET d == ParseIso(outcome.value.s)
        t == Seen(deadline_text)
    IN  /\ IsIsoDate(outcome.value)
        /\ ~Earlier(d, Day(base_date))
        /\ d = Day(base_date) =>
             \/ t = w_today
             \/ HasInDaysPattern(t) /\ 0 \in PatternNumbers(t)
        /\ t \in EndOfWeekSynonyms =>
             \E k \in 1..14 : d = PlusDays(Day(base_date), k) /\ WeekdayOf(d) = 4
        /\ IsWeekdayPhrase(t) =>
             \E k \in 1..14 :
               d = PlusDays(Day(base_date), k) /\ WeekdayOf(d) = FirstNamedWeekday(t)

\* C13 happens: "friday monday" on a Friday resolved to the Friday a week
\* later, the first name being the target.
C13_Witness ==
  /\ pc = "done"
  /\ deadline_text = Str(Join(<<w_friday, w_monday>>))
  /\ WeekdayOf(Day(base_date)) = 4
  /\ outcome = Resolved(PlusDays(Day(base_date), 7))

====
